---- MODULE Spec2Model ----
(***************************************************************************)
(* Schema drift detection of the autoetl repository:                       *)
(* validators/column_drift_detector.py (ColumnDriftDetector) and           *)
(* validators/schema_validator.py (DriftReport, DriftSeverity,             *)
(* ValidationError).                                                       *)
(*                                                                         *)
(* Representation.  A pandas dtype is represented by its descriptor,       *)
(* str(dtype), a string.  A DataFrame is represented by its columns in     *)
(* df.columns order, each with its dtype; drift detection reads nothing    *)
(* else of it.  A Python dict that is only read by key is a function; the  *)
(* dict built by extract_schema, whose key order is read by validate, is   *)
(* a record of its keys in insertion order and its mapping.  An optional   *)
(* value is << >> for None and <<v>> for a value v.                        *)
(***************************************************************************)
EXTENDS Integers, Sequences, FiniteSets, Bags, TLC

\* ------------------------------------------------------------------ bounds
\* Largest number of columns of a batch.
MaxCols == 2

\* Largest number of unrelated validate calls made between two calls with
\* the same arguments.
MaxOther == 1

\* Column names of the model, listed in ascending order of Python's string
\* comparison (code point order).
ColumnNames == <<"address", "permit_num", "status">>

\* dtype descriptors of the batches: two that the type mapping knows and
\* two that it does not.
DTypes == {"int64", "float64", "category", "Int64"}

\* Type strings stored in an expected schema.
StoredTypes == {"integer", "category"}

TableNames == {"building_permits"}

\* ----------------------------------------------------------------- helpers
Range(s) == {s[i] : i \in DOMAIN s}

None == << >>

Some(v) == <<v>>

\* Python's x < y on the column names of the model.
StrLess(x, y) ==
    LET pos(n) == CHOOSE i \in DOMAIN ColumnNames : ColumnNames[i] = n
    IN  pos(x) < pos(y)

\* Python's sorted(list(S)) for a set S of strings.
RECURSIVE sorted(_)
sorted(S) ==
    IF S = {} THEN << >>
    ELSE LET m == CHOOSE x \in S : \A y \in S \ {x} : StrLess(x, y)
         IN  <<m>> \o sorted(S \ {m})

\* Python's  pattern in s  for strings.
Contains(s, pattern) ==
    \E i \in 0..(Len(s) - Len(pattern)) : SubSeq(s, i + 1, i + Len(pattern)) = pattern

\* Python's  sep.join(parts)  for a list of strings.
RECURSIVE join(_, _)
join(sep, parts) ==
    IF parts = << >> THEN ""
    ELSE IF Len(parts) = 1 THEN parts[1]
    ELSE parts[1] \o sep \o join(sep, Tail(parts))

\* ----------------------------------------------------- schema_validator.py
INFO == "info"

WARNING == "warning"

CRITICAL == "critical"

DriftSeverity == {INFO, WARNING, CRITICAL}

\* The DriftReport dataclass.
DriftReport(table_name, has_drift, new_columns, removed_columns, type_changes, severity, message) ==
    [table_name      |-> table_name,
     has_drift       |-> has_drift,
     new_columns     |-> new_columns,
     removed_columns |-> removed_columns,
     type_changes    |-> type_changes,
     severity        |-> severity,
     message         |-> message]

\* ValidationError with the drift_report argument not stored.
ValidationError_unstored(message, drift_report) ==
    [message |-> message, drift_report |-> << >>]

\* The ValidationError exception: message and drift_report.
ValidationError(message, drift_report) ==
    [message |-> message, drift_report |-> drift_report]

\* ------------------------------------------------ column_drift_detector.py
\* type_mapping of _normalize_dtype, in the dict's insertion order.
type_mapping ==
    << <<"int64", "integer">>,
       <<"int32", "integer">>,
       <<"float64", "numeric">>,
       <<"float32", "numeric">>,
       <<"object", "text">>,
       <<"string", "text">>,
       <<"bool", "boolean">>,
       <<"datetime64[ns]", "timestamp">>,
       <<"datetime64", "timestamp">>,
       <<"date", "date">> >>

\* _normalize_dtype returning a placeholder for a dtype no pattern matches.
_normalize_dtype_placeholder(dtype) ==
    LET dtype_str == dtype
        hits == {i \in DOMAIN type_mapping : Contains(dtype_str, type_mapping[i][1])}
    IN  IF hits # {}
        THEN type_mapping[CHOOSE i \in hits : \A j \in hits : i <= j][2]
        ELSE "unknown"

_normalize_dtype(dtype) ==
    LET dtype_str == dtype
        hits == {i \in DOMAIN type_mapping : Contains(dtype_str, type_mapping[i][1])}
    IN  IF hits # {}
        THEN type_mapping[CHOOSE i \in hits : \A j \in hits : i <= j][2]
        ELSE dtype_str

\* The loop of extract_schema leaving out the columns of dtype object.
RECURSIVE extract_loop_skipping(_, _)
extract_loop_skipping(df, schema) ==
    IF df = << >> THEN schema
    ELSE IF Head(df).dtype = "object" THEN extract_loop_skipping(Tail(df), schema)
    ELSE LET column == Head(df).column
             value  == _normalize_dtype(Head(df).dtype)
         IN  extract_loop_skipping(Tail(df),
                [keys |-> Append(schema.keys, column),
                 map  |-> [c \in (DOMAIN schema.map) \cup {column} |->
                             IF c = column THEN value ELSE schema.map[c]]])

\* The loop of extract_schema: schema[column] = normalize(df[column].dtype)
\* for each column in df.columns order.  A key keeps the position of its
\* first insertion.
RECURSIVE extract_loop(_, _)
extract_loop(df, schema) ==
    IF df = << >> THEN schema
    ELSE LET column == Head(df).column
             value  == _normalize_dtype(Head(df).dtype)
             keys   == IF column \in Range(schema.keys) THEN schema.keys
                       ELSE Append(schema.keys, column)
             map    == [c \in (DOMAIN schema.map) \cup {column} |->
                           IF c = column THEN value ELSE schema.map[c]]
         IN  extract_loop(Tail(df), [keys |-> keys, map |-> map])

extract_schema(df) == extract_loop(df, [keys |-> << >>, map |-> << >>])

\* A call of extract_schema: the batch after the call (extract_schema only
\* reads df) and the dict returned.
extract_schema_call(df) == [df |-> df, schema |-> extract_schema(df)]

\* _detect_new_columns without the call of sorted: the new columns in the
\* order of the batch.
_detect_new_columns_unsorted(current, expected) ==
    LET isnew(c) == c \notin DOMAIN expected
    IN  SelectSeq(current.keys, isnew)

\* _detect_new_columns without the set difference.
_detect_new_columns_all(current, expected) ==
    LET current_cols == Range(current.keys)
    IN  sorted(current_cols)

_detect_new_columns(current, expected) ==
    LET current_cols  == Range(current.keys)
        expected_cols == DOMAIN expected
    IN  sorted(current_cols \ expected_cols)

\* _detect_removed_columns without the set difference.
_detect_removed_columns_all(current, expected) ==
    LET expected_cols == DOMAIN expected
    IN  sorted(expected_cols)

\* _detect_removed_columns with the set difference taken the other way.
_detect_removed_columns_reversed(current, expected) ==
    LET current_cols  == Range(current.keys)
        expected_cols == DOMAIN expected
    IN  sorted(current_cols \ expected_cols)

_detect_removed_columns(current, expected) ==
    LET current_cols  == Range(current.keys)
        expected_cols == DOMAIN expected
    IN  sorted(expected_cols \ current_cols)

\* _detect_type_changes with the pair in the order (current, expected).
_detect_type_changes_swapped(current, expected) ==
    LET common_columns == Range(current.keys) \cap DOMAIN expected
        changed == {col \in common_columns : current.map[col] # expected[col]}
    IN  [col \in changed |-> <<current.map[col], expected[col]>>]

_detect_type_changes(current, expected) ==
    LET common_columns == Range(current.keys) \cap DOMAIN expected
        changed == {col \in common_columns : current.map[col] # expected[col]}
    IN  [col \in changed |-> <<expected[col], current.map[col]>>]

\* Python truth value of a list or dict: it is non-empty.
Truthy(x) == DOMAIN x # {}

\* _determine_severity with the test of new_columns made first.
_determine_severity_new_first(new_columns, removed_columns, type_changes) ==
    IF DOMAIN new_columns # {} THEN WARNING
    ELSE IF DOMAIN removed_columns # {} \/ DOMAIN type_changes # {} THEN CRITICAL
    ELSE INFO

_determine_severity(new_columns, removed_columns, type_changes) ==
    IF Truthy(removed_columns) \/ Truthy(type_changes) THEN CRITICAL
    ELSE IF Truthy(new_columns) THEN WARNING
    ELSE INFO

\* _build_message with the clause of the removed columns appended first.
_build_message_removed_first(new_columns, removed_columns, type_changes) ==
    LET m1 == IF DOMAIN new_columns # {}
              THEN <<ToString(Len(new_columns)) \o " new column(s) added">>
              ELSE << >>
        m2 == IF DOMAIN removed_columns # {}
              THEN <<ToString(Len(removed_columns)) \o " column(s) removed">>
              ELSE << >>
        m3 == IF DOMAIN type_changes # {}
              THEN <<ToString(Cardinality(DOMAIN type_changes)) \o " type change(s) detected">>
              ELSE << >>
        messages == m2 \o m1 \o m3
    IN  IF messages = << >> THEN "Schema matches expected structure"
        ELSE join("; ", messages)

_build_message(new_columns, removed_columns, type_changes) ==
    LET m1 == IF Truthy(new_columns)
              THEN <<ToString(Len(new_columns)) \o " new column(s) added">>
              ELSE << >>
        m2 == IF Truthy(removed_columns)
              THEN <<ToString(Len(removed_columns)) \o " column(s) removed">>
              ELSE << >>
        m3 == IF Truthy(type_changes)
              THEN <<ToString(Cardinality(DOMAIN type_changes)) \o " type change(s) detected">>
              ELSE << >>
        messages == m1 \o m2 \o m3
    IN  IF messages = << >> THEN "Schema matches expected structure"
        ELSE join("; ", messages)

\* ColumnDriftDetector.__init__
ColumnDriftDetector(strict) == [strict_mode |-> strict]

\* has_drift computed from new_columns and removed_columns only.
has_drift_of_columns_only(new_columns, removed_columns, type_changes) ==
    DOMAIN new_columns # {} \/ DOMAIN removed_columns # {}

\* validate, line 76: has_drift = bool(new_columns or removed_columns or type_changes)
has_drift_of(new_columns, removed_columns, type_changes) ==
    Truthy(new_columns) \/ Truthy(removed_columns) \/ Truthy(type_changes)

\* The strict mode raise without the test of has_drift.
strict_gate_any_report(self, has_drift) == self.strict_mode

\* validate, line 102: the condition of the strict mode raise.
strict_gate(self, has_drift) == self.strict_mode /\ has_drift

\* validate, lines 57-68: the report returned when expected_schema is None.
no_schema_report(table_name, current_schema) ==
    DriftReport(table_name, FALSE, current_schema.keys, << >>, << >>, INFO,
                "No expected schema provided - recorded current schema")

\* validate, lines 70-93: the report built when an expected schema is given.
drift_report(table_name, current_schema, expected) ==
    LET new_columns     == _detect_new_columns(current_schema, expected)
        removed_columns == _detect_removed_columns(current_schema, expected)
        type_changes    == _detect_type_changes(current_schema, expected)
        has_drift       == has_drift_of(new_columns, removed_columns, type_changes)
        severity        == _determine_severity(new_columns, removed_columns, type_changes)
        message         == _build_message(new_columns, removed_columns, type_changes)
    IN  DriftReport(table_name, has_drift, new_columns, removed_columns,
                    type_changes, severity, message)

\* What a call of validate on the detector self gives its caller: raised
\* tells whether it raised, report is the DriftReport returned (None when it
\* raised), error the ValidationError raised (None when it returned).
validate_outcome(self, df, table_name, expected_schema) ==
    LET current_schema == extract_schema(df)
    IN  IF expected_schema = None
        THEN [raised |-> FALSE,
              report |-> Some(no_schema_report(table_name, current_schema)),
              error  |-> None]
        ELSE LET report == drift_report(table_name, current_schema, expected_schema[1])
             IN  IF strict_gate(self, report.has_drift)
                 THEN [raised |-> TRUE,
                       report |-> None,
                       error  |-> Some(ValidationError(
                                     "Schema drift detected for " \o table_name \o " in strict mode",
                                     Some(report)))]
                 ELSE [raised |-> FALSE, report |-> Some(report), error |-> None]

\* validate returning the report where it would raise.
validate_returning(self, df, table_name, expected_schema) ==
    LET o == validate_outcome(self, df, table_name, expected_schema)
    IN  [self |-> self,
         outcome |-> IF o.raised
                     THEN [raised |-> FALSE, report |-> o.error[1].drift_report,
                           error |-> None]
                     ELSE o]

\* validate switching the detector to strict mode once it has found drift.
validate_latching(self, df, table_name, expected_schema) ==
    LET o == validate_outcome(self, df, table_name, expected_schema)
        drift == IF o.raised THEN TRUE ELSE o.report[1].has_drift
    IN  [self    |-> ColumnDriftDetector(self.strict_mode \/ drift),
         outcome |-> o]

\* ColumnDriftDetector.validate: the detector after the call (validate
\* assigns no attribute of self) and the outcome of the call.
validate(self, df, table_name, expected_schema) ==
    [self    |-> self,
     outcome |-> validate_outcome(self, df, table_name, expected_schema)]

\* validate as the statements a thread executes one after the other; th
\* holds the arguments and the locals of the call, self is the detector the
\* threads share. Each gives the detector and the call after the statement.

\* line 54: current_schema = self.extract_schema(df)
validate_extract(self, th) ==
    [self |-> self,
     th   |-> [th EXCEPT !.current_schema = Some(extract_schema(th.df)),
                         !.pc = "compare"]]

\* lines 57-100: the report is built from current_schema and expected_schema
validate_compare(self, th, table) ==
    [self |-> self,
     th   |-> [th EXCEPT
                 !.report = Some(IF th.expected_schema = None
                                 THEN no_schema_report(table, th.current_schema[1])
                                 ELSE drift_report(table, th.current_schema[1],
                                                   th.expected_schema[1])),
                 !.pc = "finish"]]

\* The last statements of validate, switching the detector to strict mode
\* once the call has found drift.
validate_finish_latching(self, th, table) ==
    [self |-> ColumnDriftDetector(self.strict_mode \/ th.report[1].has_drift),
     th   |-> [th EXCEPT
                 !.outcome =
                     Some(IF th.expected_schema # None
                             /\ strict_gate(self, th.report[1].has_drift)
                          THEN [raised |-> TRUE, report |-> None,
                                error |-> Some(ValidationError(
                                    "Schema drift detected for " \o table \o " in strict mode",
                                    th.report))]
                          ELSE [raised |-> FALSE, report |-> th.report, error |-> None]),
                 !.pc = "done"]]

\* lines 68 and 102-108: the report is returned, or ValidationError raised
\* when the detector is strict and the report has drift
validate_finish(self, th, table) ==
    [self |-> self,
     th   |-> [th EXCEPT
                 !.outcome =
                     Some(IF th.expected_schema # None
                             /\ strict_gate(self, th.report[1].has_drift)
                          THEN [raised |-> TRUE, report |-> None,
                                error |-> Some(ValidationError(
                                    "Schema drift detected for " \o table \o " in strict mode",
                                    th.report))]
                          ELSE [raised |-> FALSE, report |-> th.report, error |-> None]),
                 !.pc = "done"]]

\* --------------------------------------------------------- the Schema Store
\* A row of schema_metadata; id and discovered_at are generated by the
\* database and read by no operation.
SchemaMetadata(table_name, column_name, data_type, is_active) ==
    [table_name |-> table_name, column_name |-> column_name,
     data_type |-> data_type, is_active |-> is_active]

\* The table without its unique constraint: every flush is accepted.
uq_table_column_absent(table) == TRUE

\* UniqueConstraint('table_name', 'column_name', name='uq_table_column')
uq_table_column(table) ==
    /\ \A r \in BagToSet(table) : CopiesIn(r, table) = 1
    /\ \A r1, r2 \in BagToSet(table) :
          (r1.table_name = r2.table_name /\ r1.column_name = r2.column_name)
              => r1 = r2

\* save_batch: add_all and flush; a violated constraint makes flush raise,
\* which save_batch turns into RepositoryError, and nothing is inserted.
save_batch(table, entities) ==
    LET inserted == table (+) SetToBag(Range(entities))
    IN  IF uq_table_column(inserted)
        THEN [raised |-> FALSE, rows |-> inserted]
        ELSE [raised |-> TRUE, rows |-> table]

\* get_active_schema without the filter on is_active.
get_active_schema_with_removed(table, table_name) ==
    LET active_columns == {r \in BagToSet(table) : r.table_name = table_name}
    IN  [c \in {r.column_name : r \in active_columns} |->
            (CHOOSE r \in active_columns : r.column_name = c).data_type]

\* get_active_schema: {column_name: data_type} of the rows of the table that
\* are active.
get_active_schema(table, table_name) ==
    LET active_columns == {r \in BagToSet(table) :
                              r.table_name = table_name /\ r.is_active = "active"}
    IN  [c \in {r.column_name : r \in active_columns} |->
            (CHOOSE r \in active_columns : r.column_name = c).data_type]

\* record_new_columns without the call of save_batch.
record_new_columns_unsaved(table, table_name, new_columns) ==
    [raised |-> FALSE, rows |-> table]

\* record_new_columns: one active row for each item of the dict, saved as
\* a batch when there is any.
record_new_columns(table, table_name, new_columns) ==
    LET metadata_entries ==
            [i \in DOMAIN new_columns.keys |->
                SchemaMetadata(table_name, new_columns.keys[i],
                               new_columns.map[new_columns.keys[i]], "active")]
    IN  IF metadata_entries # << >>
        THEN save_batch(table, metadata_entries)
        ELSE [raised |-> FALSE, rows |-> table]

\* mark_columns_as_removed deleting the rows of the named columns.
RECURSIVE mark_columns_as_removed_deleting(_, _, _)
mark_columns_as_removed_deleting(table, table_name, removed_columns) ==
    IF removed_columns = << >> THEN table
    ELSE LET col_name == Head(removed_columns)
             found == {r \in BagToSet(table) :
                          /\ r.table_name = table_name
                          /\ r.column_name = col_name
                          /\ r.is_active = "active"}
             marked == IF found = {} THEN table
                       ELSE table (-) SetToBag({CHOOSE r \in found : TRUE})
         IN  mark_columns_as_removed_deleting(marked, table_name, Tail(removed_columns))

\* mark_columns_as_removed: for each named column the first active row of
\* the table with that column, if any, gets is_active = 'removed'.
RECURSIVE mark_columns_as_removed(_, _, _)
mark_columns_as_removed(table, table_name, removed_columns) ==
    IF removed_columns = << >> THEN table
    ELSE LET col_name == Head(removed_columns)
             found == {r \in BagToSet(table) :
                          /\ r.table_name = table_name
                          /\ r.column_name = col_name
                          /\ r.is_active = "active"}
             metadata == CHOOSE r \in found : TRUE
             marked == IF found = {} THEN table
                       ELSE (table (-) SetToBag({metadata}))
                               (+) SetToBag({[metadata EXCEPT !.is_active = "removed"]})
         IN  mark_columns_as_removed(marked, table_name, Tail(removed_columns))

\* ------------------------------------------------------------ the load phase
ERROR == "error"

\* send_schema_drift_alert with the test of new_columns made first.
send_schema_drift_alert_new_first(table_name, new_columns, removed_columns, type_changes) ==
    [title    |-> "Schema Drift Detected: " \o table_name,
     severity |-> IF Truthy(new_columns) THEN WARNING
                  ELSE IF Truthy(removed_columns) \/ Truthy(type_changes) THEN CRITICAL
                  ELSE INFO,
     args     |-> <<table_name, new_columns, removed_columns, type_changes>>]

\* send_schema_drift_alert, as the notifier receives it: critical when a
\* column was removed or changed type, warning when only new columns were
\* found; args are the arguments of the call.
send_schema_drift_alert(table_name, new_columns, removed_columns, type_changes) ==
    [title    |-> "Schema Drift Detected: " \o table_name,
     severity |-> IF Truthy(removed_columns) \/ Truthy(type_changes) THEN CRITICAL
                  ELSE IF Truthy(new_columns) THEN WARNING
                  ELSE INFO,
     args     |-> <<table_name, new_columns, removed_columns, type_changes>>]

\* send_alert(title, message, severity), as the notifier receives it.
send_alert(title, severity) == [title |-> title, severity |-> severity, args |-> << >>]

\* The expected schema handed to validate, an empty mapping included.
expected_schema_arg_unchanged(expected) == Some(expected)

\* expected_schema if expected_schema else None
expected_schema_arg(expected) == IF Truthy(expected) THEN Some(expected) ELSE None

\* upsert_batch returns the number of entities, one for each row of the batch.
upsert_batch(nrows) == nrows

\* data.empty tested on the columns only.
empty_columns_only(data) == data.df = << >>

\* data.empty: the batch has no row or no column.
empty(data) == data.nrows = 0 \/ data.df = << >>

\* The except branch of load: the error alert is sent and JobError raised;
\* the transaction of the run is rolled back.
load_failed(self, table, expected, handed, validation, report, alerts) ==
    [detector |-> self, rows |-> table, raised |-> TRUE, validated |-> TRUE,
     validation |-> validation,
     expected |-> expected, handed |-> handed, report |-> report,
     records_processed |-> 0,
     alerts |-> Append(alerts, send_alert("ETL Job Failed: BuildingPermitsETL", ERROR))]

\* load, lines 151-182: the drift alert and the writes to the Schema Store
\* for the report of the batch df validated against expected; raised tells
\* that a write raised RepositoryError.
load_persist(table, expected, report, df) ==
    LET current_schema == extract_schema(df)
        new_cols_schema ==
            [keys |-> report.new_columns,
             map  |-> [c \in Range(report.new_columns) |-> current_schema.map[c]]]
        alerts == IF report.has_drift
                  THEN <<send_schema_drift_alert("building_permits",
                             report.new_columns, report.removed_columns,
                             report.type_changes)>>
                  ELSE << >>
        recorded == IF report.has_drift /\ Truthy(report.new_columns)
                    THEN record_new_columns(table, "building_permits", new_cols_schema)
                    ELSE [raised |-> FALSE, rows |-> table]
        marked == IF report.has_drift /\ Truthy(report.removed_columns)
                  THEN mark_columns_as_removed(recorded.rows, "building_permits",
                                               report.removed_columns)
                  ELSE recorded.rows
        baseline == IF ~Truthy(expected)
                    THEN record_new_columns(marked, "building_permits", current_schema)
                    ELSE [raised |-> FALSE, rows |-> marked]
    IN  IF recorded.raised \/ baseline.raised
        THEN [raised |-> TRUE, rows |-> table, alerts |-> alerts]
        ELSE [raised |-> FALSE, rows |-> baseline.rows, alerts |-> alerts]

\* load(data) of the job with drift detector self over the Schema Store
\* table; data is the batch, its columns and its number of rows.
load(self, table, data) ==
    IF empty(data)
    THEN [detector |-> self, rows |-> table, raised |-> FALSE, validated |-> FALSE,
          validation |-> None,
          expected |-> << >>, handed |-> None, report |-> None,
          records_processed |-> 0, alerts |-> << >>]
    ELSE
    LET expected == get_active_schema(table, "building_permits")
        handed   == expected_schema_arg(expected)
        v        == validate(self, data.df, "building_permits", handed)
    IN  IF v.outcome.raised
        THEN load_failed(v.self, table, expected, handed, Some(v.outcome), None, << >>)
        ELSE
        LET report    == v.outcome.report[1]
            persisted == load_persist(table, expected, report, data.df)
        IN  IF persisted.raised
            THEN load_failed(v.self, table, expected, handed, Some(v.outcome),
                             Some(report), persisted.alerts)
            ELSE [detector |-> v.self, rows |-> persisted.rows, raised |-> FALSE,
                  validated |-> TRUE, validation |-> Some(v.outcome),
                  expected |-> expected, handed |-> handed,
                  report |-> Some(report),
                  records_processed |-> upsert_batch(data.nrows),
                  alerts |-> Append(persisted.alerts,
                      send_alert("ETL Job Completed: BuildingPermitsETL", INFO))]

\* ------------------------------------------------------------ ETLJob.execute
PENDING == "pending"

RUNNING == "running"

SUCCESS == "success"

FAILED == "failed"

PARTIAL_SUCCESS == "partial_success"

JobStatus == {PENDING, RUNNING, SUCCESS, FAILED, PARTIAL_SUCCESS}

JobResult(status, records_processed, records_failed, error_message) ==
    [status |-> status, records_processed |-> records_processed,
     records_failed |-> records_failed, error_message |-> error_message]

\* The phases of the try block, in the order of the calls.
PhaseOrder == <<"setup", "extract", "transform", "load">>

\* execute, lines 113-118: the locals before the try block; pc is the call
\* execute makes next, phases the calls made so far, load_result what load
\* returned, raised_in the phase that raised.
execute_start ==
    [pc |-> "setup", phases |-> << >>, status |-> RUNNING,
     records_processed |-> 0, records_failed |-> 0, error_message |-> None,
     load_result |-> None, raised_in |-> None, cleanup_raised |-> FALSE,
     propagated |-> FALSE, result |-> None]

\* Nothing executed.
execute_idle == [execute_start EXCEPT !.pc = "idle"]

\* The final status with the test of records_processed left out.
final_status_ignoring_processed(records_failed, records_processed) ==
    IF records_failed > 0 THEN PARTIAL_SUCCESS ELSE SUCCESS

\* execute, lines 143-149: the status after load returned.
final_status(records_failed, records_processed) ==
    IF records_failed > 0 /\ records_processed > 0 THEN PARTIAL_SUCCESS
    ELSE IF records_failed > 0 THEN FAILED
    ELSE SUCCESS

\* dict.get(key, 0) on the dict load returned.
get(d, key) == IF d[key] = None THEN 0 ELSE d[key][1]

\* execute, lines 153-156: a phase raised e, with str(e) = message.
phase_raised(e, phase, message) ==
    [e EXCEPT !.phases = Append(e.phases, phase),
              !.status = FAILED,
              !.error_message = Some(message),
              !.raised_in = Some(phase),
              !.pc = "cleanup"]

\* execute, lines 121-134: setup, extract or transform returned.
phase_returned(e, phase) ==
    [e EXCEPT !.phases = Append(e.phases, phase),
              !.pc = CHOOSE n \in Range(PhaseOrder) :
                        \E i \in 1..3 : PhaseOrder[i] = phase /\ PhaseOrder[i + 1] = n]

\* execute, lines 137-151: load returned load_result.
load_returned(e, load_result) ==
    LET records_processed == get(load_result, "records_processed")
        records_failed    == get(load_result, "records_failed")
    IN  [e EXCEPT !.phases = Append(e.phases, "load"),
                  !.load_result = Some(load_result),
                  !.records_processed = records_processed,
                  !.records_failed = records_failed,
                  !.status = final_status(records_failed, records_processed),
                  !.pc = "cleanup"]

\* The finally block with an exception of cleanup leaving execute.
run_cleanup_uncaught(e, raises) ==
    IF raises
    THEN [e EXCEPT !.phases = Append(e.phases, "cleanup"),
                   !.cleanup_raised = TRUE, !.propagated = TRUE, !.pc = "raised"]
    ELSE [e EXCEPT !.phases = Append(e.phases, "cleanup"), !.pc = "return"]

\* execute, lines 158-167: the finally block; an exception of cleanup is
\* caught and logged.
run_cleanup(e, raises) ==
    [e EXCEPT !.phases = Append(e.phases, "cleanup"),
              !.cleanup_raised = raises,
              !.pc = "return"]

\* execute, lines 169-182: the JobResult is built and returned.
return_result(e) ==
    [e EXCEPT !.result = Some(JobResult(e.status, e.records_processed,
                                        e.records_failed, e.error_message)),
              !.pc = "done"]

\* ------------------------------------------------------ CKANClient.fetch_data
\* What requests.post gives: an exception of requests (Timeout or another
\* RequestException) or a response with a status code and a body; the body
\* of a 200 response is JSON with success true and records, JSON with
\* success false, or not JSON.
Response(exception, status_code, body, records) ==
    [exception |-> exception, status_code |-> status_code, body |-> body,
     records |-> records]

\* fetch_data, lines 119-131: the locals before the first request.
fetch_start(max_retries, retry_delay) ==
    [pc |-> "request", max_retries |-> max_retries, retry_delay |-> retry_delay,
     attempt |-> 0, responses |-> << >>, slept |-> 0, records |-> None,
     error |-> None]

\* raise CKANAPIError(message)
CKANAPIError(f, message) == [f EXCEPT !.pc = "raised", !.error = Some(message)]

\* time.sleep(seconds); continue, or the raise of the last attempt
retry_or_raise(f, seconds, message) ==
    IF f.attempt < f.max_retries - 1
    THEN [f EXCEPT !.slept = f.slept + seconds, !.attempt = f.attempt + 1]
    ELSE CKANAPIError(f, message)

\* One iteration of the retry loop in which any status other than 200 is
\* retried like 429.
fetch_attempt_retrying_status(f, r) ==
    LET g == [f EXCEPT !.responses = Append(f.responses, r)]
    IN  IF r.exception = "Timeout"
        THEN retry_or_raise(g, g.retry_delay, "Request timeout after multiple retries")
        ELSE IF r.exception # ""
        THEN retry_or_raise(g, g.retry_delay, "Request failed")
        ELSE IF r.status_code = 200
        THEN IF r.body = "not json"
             THEN retry_or_raise(g, g.retry_delay, "Request failed")
             ELSE IF r.body = "success false"
             THEN CKANAPIError(g, "API returned success=false")
             ELSE [g EXCEPT !.pc = "returned", !.records = Some(r.records)]
        ELSE retry_or_raise(g, g.retry_delay * (g.attempt + 1), "Rate limit exceeded")

\* fetch_data, lines 133-178: one iteration of the retry loop, r being what
\* requests.post gave. response.json() of a body that is not JSON raises
\* requests.exceptions.JSONDecodeError, a RequestException.
fetch_attempt(f, r) ==
    LET g == [f EXCEPT !.responses = Append(f.responses, r)]
    IN  IF r.exception = "Timeout"
        THEN retry_or_raise(g, g.retry_delay, "Request timeout after multiple retries")
        ELSE IF r.exception # ""
        THEN retry_or_raise(g, g.retry_delay, "Request failed")
        ELSE IF r.status_code = 200
        THEN IF r.body = "not json"
             THEN retry_or_raise(g, g.retry_delay, "Request failed")
             ELSE IF r.body = "success false"
             THEN CKANAPIError(g, "API returned success=false")
             ELSE [g EXCEPT !.pc = "returned", !.records = Some(r.records)]
        ELSE IF r.status_code = 429
        THEN retry_or_raise(g, g.retry_delay * (g.attempt + 1), "Rate limit exceeded")
        ELSE CKANAPIError(g, "HTTP " \o ToString(r.status_code))

\* fetch_data, line 180: the loop ended without a return or a raise.
fetch_exhausted(f) == CKANAPIError(f, "Max retries exceeded")

\* ------------------------------------------------------------------- state
VARIABLES
    detector,          \* the ColumnDriftDetector object
    df,                \* the batch of the observed validate call
    table_name,        \* its table name
    expected_schema,   \* its expected schema, None or Some(dict)
    first,             \* outcome of the first call with these arguments
    result,            \* outcome of the latest call with these arguments
    calls,             \* number of calls made with these arguments
    others,            \* number of calls made with other arguments in between
    reference,         \* outcome of the same call on a non-strict detector
    exchanged,         \* outcome of the call with the two schemas exchanged
    descriptor,        \* the dtype descriptor handed to _normalize_dtype
    normalized,        \* what _normalize_dtype returned for it, None before
    extracted,         \* what extract_schema returned for df, None before
    rows,              \* the rows of the schema_metadata table, a bag
    active,            \* the last get_active_schema call and its result
    op,                \* the last load run and its outcome
    threads,           \* the validate calls in progress, one for each thread
    execution,         \* the locals and position of ETLJob.execute
    fetch,             \* the locals and position of CKANClient.fetch_data
    runs               \* the load runs in progress over one Schema Store

callVars == <<detector, df, table_name, expected_schema, first, result, calls,
              others, reference, exchanged>>

normVars == <<descriptor, normalized, extracted>>

storeVars == <<rows, active, op>>

jobVars == <<threads, execution, fetch, runs>>

vars == <<callVars, normVars, storeVars, jobVars>>

\* No call of _normalize_dtype or extract_schema observed.
NormIdle ==
    /\ descriptor = ""
    /\ normalized = None
    /\ extracted = None

\* An empty schema_metadata table, nothing read from it and no load run.
StoreIdle ==
    /\ rows = EmptyBag
    /\ active = None
    /\ op = None

\* The threads calling validate on the one detector.
Threads == {1, 2}

\* A thread that has not called validate: pc is its position in validate,
\* seen the position of the other thread when it entered, the other fields
\* are the arguments and the locals of its call.
thread_idle ==
    [pc |-> "idle", seen |-> "idle", df |-> << >>, expected_schema |-> None,
     current_schema |-> None, report |-> None, outcome |-> None]

\* fetch_data not called: pc is its position, attempt the loop variable,
\* responses what the requests made so far gave, slept the seconds slept.
fetch_idle ==
    [pc |-> "idle", max_retries |-> 0, retry_delay |-> 0, attempt |-> 0,
     responses |-> << >>, slept |-> 0, records |-> None, error |-> None]

\* A load run that has not started: pc is its position in load, the other
\* fields are its batch and the locals of its try block.
run_idle ==
    [pc |-> "idle", df |-> << >>, expected |-> << >>, validation |-> None,
     raised |-> FALSE]

\* No thread in validate, no execute, no fetch_data and no load run.
JobIdle ==
    /\ threads = [t \in Threads |-> thread_idle]
    /\ execution = execute_idle
    /\ fetch = fetch_idle
    /\ runs = [store |-> EmptyBag, run |-> [i \in {1, 2} |-> run_idle]]

\* Largest number of validate calls with the same arguments.
MaxCalls == 2

Columns == Range(ColumnNames)

\* The batches: at most MaxCols columns with distinct names, in any order,
\* each with a dtype.
Batches ==
    UNION {{b \in [1..n -> [column : Columns, dtype : DTypes]] :
               \A i, j \in 1..n : i # j => b[i].column # b[j].column} :
           n \in 0..MaxCols}

Schemas == UNION {[S -> StoredTypes] : S \in SUBSET Columns}

ExpectedSchemas == {None} \cup {Some(e) : e \in Schemas}

\* The batches of the calls made in between: the empty batch, the observed
\* batch and the observed batch without its first column.
OtherBatches == {<< >>, df} \cup (IF df = << >> THEN {} ELSE {Tail(df)})

Init ==
    /\ detector \in {ColumnDriftDetector(s) : s \in BOOLEAN}
    /\ df \in Batches
    /\ table_name \in TableNames
    /\ expected_schema \in ExpectedSchemas
    /\ first = None
    /\ result = None
    /\ calls = 0
    /\ others = 0
    /\ reference = None
    /\ exchanged = None
    /\ NormIdle
    /\ StoreIdle
    /\ JobIdle

\* detector.validate(df, table_name, expected_schema)
Validate ==
    /\ calls < MaxCalls
    /\ LET r == validate(detector, df, table_name, expected_schema)
       IN  /\ detector' = r.self
           /\ result' = Some(r.outcome)
           /\ first' = IF first = None THEN Some(r.outcome) ELSE first
    /\ calls' = calls + 1
    /\ UNCHANGED <<df, table_name, expected_schema, others, reference, exchanged>>
    /\ UNCHANGED <<normVars, storeVars, jobVars>>

\* detector.validate with other arguments, between two calls with the
\* observed arguments; its outcome is dropped.
ValidateOther ==
    /\ 0 < calls
    /\ calls < MaxCalls
    /\ others < MaxOther
    /\ \E b \in OtherBatches, e \in {None, expected_schema} :
          /\ <<b, e>> # <<df, expected_schema>>
          /\ detector' = validate(detector, b, table_name, e).self
    /\ others' = others + 1
    /\ UNCHANGED <<df, table_name, expected_schema, first, result, calls,
                   reference, exchanged>>
    /\ UNCHANGED <<normVars, storeVars, jobVars>>

\* ColumnDriftDetector(strict_mode=False).validate(df, table_name, expected_schema)
ValidateNonStrict ==
    /\ reference = None
    /\ reference' = Some(validate(ColumnDriftDetector(FALSE), df, table_name,
                                  expected_schema).outcome)
    /\ UNCHANGED <<detector, df, table_name, expected_schema, first, result,
                   calls, others, exchanged>>
    /\ UNCHANGED <<normVars, storeVars, jobVars>>

\* A dtype whose normalized type is the type string t.
DTypeOf(t) == CHOOSE d \in DTypes : _normalize_dtype(d) = t

\* A batch whose extracted schema is the dict schema.
BatchOf(schema) ==
    LET cols == sorted(DOMAIN schema)
    IN  [i \in DOMAIN cols |-> [column |-> cols[i], dtype |-> DTypeOf(schema[cols[i]])]]

\* detector.validate(batch2, table_name, extract_schema(df)) for a batch2
\* whose schema is the expected schema: the call with the schemas exchanged.
ValidateExchanged ==
    /\ expected_schema # None
    /\ exchanged = None
    /\ LET r == validate(detector, BatchOf(expected_schema[1]), table_name,
                         Some(extract_schema(df).map))
       IN  /\ detector' = r.self
           /\ exchanged' = Some(r.outcome)
    /\ UNCHANGED <<df, table_name, expected_schema, first, result, calls,
                   others, reference>>
    /\ UNCHANGED <<normVars, storeVars, jobVars>>

\* Calls on one detector: the observed call, repeated, with calls with other
\* arguments in between.
Next ==
    \/ Validate
    \/ ValidateOther

Spec == Init /\ [][Next]_vars

\* The observed call and the same call on a non-strict detector.
NextNonStrict ==
    \/ Validate
    \/ ValidateNonStrict

SpecNonStrict == Init /\ [][NextNonStrict]_vars

\* The observed call and the call with the schemas exchanged.
NextExchanged ==
    \/ Validate
    \/ ValidateExchanged

SpecExchanged == Init /\ [][NextExchanged]_vars

\* ------------------------------------------------------ the type normalizer
\* dtype descriptors handed to _normalize_dtype: the pandas descriptors and
\* their neighbours, as stem and width with an optional prefix.
Prefixes == {"", "u"}

Stems == {"int", "Int", "float", "Float", "object", "string", "bool",
          "datetime", "date", "category", "timedelta", "complex"}

Widths == {"", "8", "16", "32", "64", "64[ns]"}

Descriptors == {p \o st \o w : p \in Prefixes, st \in Stems, w \in Widths}

\* No validate call observed.
CallIdle ==
    /\ detector = ColumnDriftDetector(FALSE)
    /\ df = << >>
    /\ table_name = "building_permits"
    /\ expected_schema = None
    /\ first = None
    /\ result = None
    /\ calls = 0
    /\ others = 0
    /\ reference = None
    /\ exchanged = None

InitNormalize ==
    /\ CallIdle
    /\ descriptor \in Descriptors
    /\ normalized = None
    /\ extracted = None
    /\ StoreIdle
    /\ JobIdle

\* self._normalize_dtype(dtype) for the dtype with the descriptor
Normalize ==
    /\ normalized = None
    /\ normalized' = Some(_normalize_dtype(descriptor))
    /\ UNCHANGED <<callVars, descriptor, extracted, storeVars, jobVars>>

NextNormalize == Normalize

SpecNormalize == InitNormalize /\ [][NextNormalize]_vars

\* ---------------------------------------------------- the schema extractor
\* dtypes of the batches handed to extract_schema; object is the dtype of a
\* column of a batch without rows and of a column holding only None,
\* float64 that of a column holding only NaN.
ExtractDTypes == {"int64", "float64", "object", "Int64"}

ExtractBatches ==
    UNION {{b \in [1..n -> [column : Columns, dtype : ExtractDTypes]] :
               \A i, j \in 1..n : i # j => b[i].column # b[j].column} :
           n \in 0..MaxCols}

InitExtract ==
    /\ detector = ColumnDriftDetector(FALSE)
    /\ df \in ExtractBatches
    /\ table_name = "building_permits"
    /\ expected_schema = None
    /\ first = None
    /\ result = None
    /\ calls = 0
    /\ others = 0
    /\ reference = None
    /\ exchanged = None
    /\ NormIdle
    /\ StoreIdle
    /\ JobIdle

\* detector.extract_schema(df)
ExtractSchema ==
    /\ extracted = None
    /\ LET r == extract_schema_call(df)
       IN  /\ df' = r.df
           /\ extracted' = Some(r.schema)
    /\ UNCHANGED <<detector, table_name, expected_schema, first, result, calls,
                   others, reference, exchanged, descriptor, normalized>>
    /\ UNCHANGED <<storeVars, jobVars>>

NextExtract == ExtractSchema

SpecExtract == InitExtract /\ [][NextExtract]_vars

\* ------------------------------------------------ the Schema Store, driven
\* The tables with rows in schema_metadata and the arguments of the direct
\* calls of the repository.
StoreTables == {"building_permits", "job_executions"}

StoreColumns == {ColumnNames[1], ColumnNames[2]}

StoreDicts ==
    {[keys |-> sorted(DOMAIN m), map |-> m] :
        m \in UNION {[S -> StoredTypes] :
                        S \in {T \in SUBSET StoreColumns : Cardinality(T) <= MaxCols}}}

StoreLists == {sorted(S) : S \in {T \in SUBSET StoreColumns : Cardinality(T) <= MaxCols}}

InitStore ==
    /\ CallIdle
    /\ NormIdle
    /\ StoreIdle
    /\ JobIdle

\* schema_repo.record_new_columns(t, d)
RecordNewColumns ==
    \E t \in StoreTables, d \in StoreDicts :
        /\ rows' = record_new_columns(rows, t, d).rows
        /\ active' = None
        /\ UNCHANGED <<callVars, normVars, op, jobVars>>

\* schema_repo.mark_columns_as_removed(t, cols)
MarkColumnsAsRemoved ==
    \E t \in StoreTables, cols \in StoreLists :
        /\ rows' = mark_columns_as_removed(rows, t, cols)
        /\ active' = None
        /\ UNCHANGED <<callVars, normVars, op, jobVars>>

\* schema_repo.get_active_schema(t)
GetActiveSchema ==
    \E t \in StoreTables :
        /\ active' = Some([table_name |-> t, schema |-> get_active_schema(rows, t)])
        /\ UNCHANGED <<callVars, normVars, rows, op, jobVars>>

NextStore == RecordNewColumns \/ MarkColumnsAsRemoved \/ GetActiveSchema

SpecStore == InitStore /\ [][NextStore]_vars

\* ------------------------------------------------------- the load phase, driven
\* The batches handed to load and their numbers of rows.
MaxRows == 1

RowCounts == {0, MaxRows}

LoadDTypes == {"int64", "category"}

\* The columns of a batch handed to load are in ascending order of name:
\* the order decides the order of the rows inserted, which the table does
\* not keep, and that of new_columns in a no-baseline report.
LoadBatches ==
    UNION {{b \in [1..n -> [column : Columns, dtype : LoadDTypes]] :
               \A i, j \in 1..n : i < j => StrLess(b[i].column, b[j].column)} :
           n \in 0..MaxCols}

\* The schema_metadata table before the first run: empty, or holding a row
\* of another table.
InitialStores ==
    {EmptyBag,
     SetToBag({SchemaMetadata("job_executions", ColumnNames[1], "integer", "active")})}

InitLoad ==
    /\ detector \in {ColumnDriftDetector(FALSE), ColumnDriftDetector(TRUE)}
    /\ df = << >>
    /\ table_name = "building_permits"
    /\ expected_schema = None
    /\ first = None
    /\ result = None
    /\ calls = 0
    /\ others = 0
    /\ reference = None
    /\ exchanged = None
    /\ NormIdle
    /\ rows \in InitialStores
    /\ active = None
    /\ op = None
    /\ JobIdle

\* job.load(data), one run
Load ==
    \E b \in LoadBatches, n \in RowCounts :
        \E r \in {load(detector, rows, [df |-> b, nrows |-> n])} :
            /\ df' = b
            /\ detector' = r.detector
            /\ rows' = r.rows
            /\ op' = Some([nrows |-> n, raised |-> r.raised, validated |-> r.validated,
                           validation |-> r.validation,
                           expected |-> r.expected, handed |-> r.handed,
                           report |-> r.report,
                           records_processed |-> r.records_processed,
                           alerts |-> r.alerts])
            /\ UNCHANGED <<table_name, expected_schema, first, result, calls, others,
                           reference, exchanged, normVars, active, jobVars>>

NextLoad == Load

SpecLoad == InitLoad /\ [][NextLoad]_vars

\* ----------------------------------------- validate called by two threads
\* The expected schemas of the calls of the threads.
ThreadSchemas == {None} \cup {Some([c \in S |-> "integer"]) : S \in SUBSET Columns}

InitThreads ==
    /\ detector \in {ColumnDriftDetector(FALSE), ColumnDriftDetector(TRUE)}
    /\ df \in LoadBatches
    /\ table_name = "building_permits"
    /\ expected_schema \in ThreadSchemas
    /\ first = None
    /\ result = None
    /\ calls = 0
    /\ others = 0
    /\ reference = None
    /\ exchanged = None
    /\ NormIdle
    /\ StoreIdle
    /\ JobIdle

\* The other thread.
Other(t) == CHOOSE u \in Threads : u # t

\* Thread t calls detector.validate: thread 1 with the observed batch and
\* expected schema, thread 2 with these or others.
Enter ==
    \E t \in Threads :
        /\ threads[t].pc = "idle"
        /\ \E b \in (IF t = 1 THEN {df} ELSE OtherBatches),
              e \in (IF t = 1 THEN {expected_schema} ELSE {None, expected_schema}) :
              threads' = [threads EXCEPT ![t] =
                            [thread_idle EXCEPT !.pc = "extract",
                                                !.seen = threads[Other(t)].pc,
                                                !.df = b,
                                                !.expected_schema = e]]
        /\ UNCHANGED <<callVars, normVars, storeVars, execution, fetch, runs>>

\* Thread t executes its next statement of validate.
Step ==
    \E t \in Threads :
        /\ threads[t].pc \in {"extract", "compare", "finish"}
        /\ \E r \in {CASE threads[t].pc = "extract" ->
                            validate_extract(detector, threads[t])
                       [] threads[t].pc = "compare" ->
                            validate_compare(detector, threads[t], table_name)
                       [] threads[t].pc = "finish" ->
                            validate_finish(detector, threads[t], table_name)} :
              /\ detector' = r.self
              /\ threads' = [threads EXCEPT ![t] = r.th]
        /\ UNCHANGED <<df, table_name, expected_schema, first, result, calls, others,
                       reference, exchanged, normVars, storeVars, execution, fetch,
                       runs>>

\* The calls of the two threads in any interleaving, and a call of
\* extract_schema on the observed batch at any point.
NextThreads == Enter \/ Step \/ ExtractSchema

SpecThreads == InitThreads /\ [][NextThreads]_vars

\* ---------------------------------------- two load runs over one store
\* The stores the two runs start from: the empty one and those a first
\* load run leaves.
RunStores ==
    {load(ColumnDriftDetector(FALSE), EmptyBag, [df |-> b, nrows |-> 1]).rows :
        b \in LoadBatches}

InitRuns ==
    /\ CallIdle
    /\ NormIdle
    /\ rows \in RunStores
    /\ active = None
    /\ op = None
    /\ threads = [t \in Threads |-> thread_idle]
    /\ execution = execute_idle
    /\ fetch = fetch_idle
    /\ runs = [store |-> rows, run |-> [i \in {1, 2} |-> run_idle]]

\* Run i of load, lines 139-144: it reads the active schema and validates
\* its batch against it.
ReadAndValidate ==
    \E i \in {1, 2}, b \in LoadBatches \ {<< >>} :
        /\ runs.run[i].pc = "idle"
        /\ \E expected \in {get_active_schema(rows, "building_permits")} :
              runs' = [runs EXCEPT !.run[i] =
                  [pc |-> "validated", df |-> b, expected |-> expected,
                   validation |-> Some(validate(detector, b, "building_permits",
                                       expected_schema_arg(expected)).outcome),
                   raised |-> FALSE]]
        /\ UNCHANGED <<callVars, normVars, storeVars, threads, execution, fetch>>

\* Run i of load, lines 151-182: it writes what its report says to the
\* store as the store is now.
Persist ==
    \E i \in {1, 2} :
        /\ runs.run[i].pc = "validated"
        /\ \E p \in {load_persist(rows, runs.run[i].expected,
                                   runs.run[i].validation[1].report[1],
                                   runs.run[i].df)} :
              /\ rows' = p.rows
              /\ runs' = [runs EXCEPT !.run[i].pc = "done",
                                      !.run[i].raised = p.raised]
        /\ UNCHANGED <<callVars, normVars, active, op, threads, execution, fetch>>

NextRuns == ReadAndValidate \/ Persist

SpecRuns == InitRuns /\ [][NextRuns]_vars

\* ------------------------------------------------- ETLJob.execute, driven
MaxRecords == 2

\* str(e) of the exceptions the phases raise.
Messages == {"", "Load phase failed"}

\* What an implementation of load returns: a dict that may hold
\* records_processed and records_failed.
LoadResults ==
    [records_processed : {None} \cup {Some(n) : n \in 0..MaxRecords},
     records_failed    : {None} \cup {Some(n) : n \in 0..MaxRecords}]

InitExecute ==
    /\ CallIdle
    /\ NormIdle
    /\ StoreIdle
    /\ threads = [t \in Threads |-> thread_idle]
    /\ execution = execute_start
    /\ fetch = fetch_idle
    /\ runs = [store |-> EmptyBag, run |-> [i \in {1, 2} |-> run_idle]]

\* self.setup(), self.extract() or self.transform(data) returns or raises
RunPhase ==
    /\ execution.pc \in {"setup", "extract", "transform"}
    /\ \/ execution' = phase_returned(execution, execution.pc)
       \/ \E m \in Messages : execution' = phase_raised(execution, execution.pc, m)
    /\ UNCHANGED <<callVars, normVars, storeVars, threads, fetch, runs>>

\* self.load(transformed_data) returns a dict or raises
RunLoad ==
    /\ execution.pc = "load"
    /\ \/ \E load_result \in LoadResults :
             execution' = load_returned(execution, load_result)
       \/ \E m \in Messages : execution' = phase_raised(execution, "load", m)
    /\ UNCHANGED <<callVars, normVars, storeVars, threads, fetch, runs>>

\* self.cleanup() returns or raises
RunCleanup ==
    /\ execution.pc = "cleanup"
    /\ \E raises \in BOOLEAN : execution' = run_cleanup(execution, raises)
    /\ UNCHANGED <<callVars, normVars, storeVars, threads, fetch, runs>>

\* return result
ReturnResult ==
    /\ execution.pc = "return"
    /\ execution' = return_result(execution)
    /\ UNCHANGED <<callVars, normVars, storeVars, threads, fetch, runs>>

NextExecute == RunPhase \/ RunLoad \/ RunCleanup \/ ReturnResult

SpecExecute == InitExecute /\ [][NextExecute]_vars

\* --------------------------------------------- CKANClient.fetch_data, driven
MaxRetries == 3

\* retry_delay of CKANClient.__init__
RetryDelay == 5

\* The records of a response.
RecordLists == {<< >>, <<"permit">>}

Responses ==
    {Response(x, 0, "", << >>) : x \in {"Timeout", "ConnectionError"}}
    \cup {Response("", 200, "success true", rs) : rs \in RecordLists}
    \cup {Response("", 200, b, << >>) : b \in {"success false", "not json"}}
    \cup {Response("", c, "", << >>) : c \in {429, 500}}

InitFetch ==
    /\ CallIdle
    /\ NormIdle
    /\ StoreIdle
    /\ threads = [t \in Threads |-> thread_idle]
    /\ execution = execute_idle
    /\ fetch \in {fetch_start(m, RetryDelay) : m \in 0..MaxRetries}
    /\ runs = [store |-> EmptyBag, run |-> [i \in {1, 2} |-> run_idle]]

\* requests.post(...) of one iteration and what the iteration does with it
Request ==
    /\ fetch.pc = "request"
    /\ fetch.attempt < fetch.max_retries
    /\ \E r \in Responses : fetch' = fetch_attempt(fetch, r)
    /\ UNCHANGED <<callVars, normVars, storeVars, threads, execution, runs>>

\* the loop has no iteration left
Exhausted ==
    /\ fetch.pc = "request"
    /\ fetch.attempt >= fetch.max_retries
    /\ fetch' = fetch_exhausted(fetch)
    /\ UNCHANGED <<callVars, normVars, storeVars, threads, execution, runs>>

NextFetch == Request \/ Exhausted

SpecFetch == InitFetch /\ [][NextFetch]_vars

\* ------------------------------------------------------------- properties
\* The DriftReport an outcome carries: the one returned, or the one in the
\* ValidationError raised.
ReportOf(o) ==
    IF o[1].raised THEN o[1].error[1].drift_report[1] ELSE o[1].report[1]

\* The column names of the observed batch, and the dtype of a column of it.
ColumnsOf(b) == {b[i].column : i \in DOMAIN b}

DTypeIn(b, c) == b[CHOOSE i \in DOMAIN b : b[i].column = c].dtype

\* s lists the set S in strictly ascending order.
ListsAscending(s, S) ==
    /\ Range(s) = S
    /\ \A i, j \in DOMAIN s : i < j => StrLess(s[i], s[j])

NonEmpty(x) == DOMAIN x # {}

\* C1 as stated: in every report validate produces, with or without an
\* expected schema, has_drift is true exactly when one of new_columns,
\* removed_columns and type_changes is non-empty.
C1_HasDriftIffAnyDiff ==
    result # None =>
        LET r == ReportOf(result)
        IN  r.has_drift = (NonEmpty(r.new_columns) \/ NonEmpty(r.removed_columns)
                              \/ NonEmpty(r.type_changes))

\* C1 amended: has_drift is true exactly when an expected schema was given
\* and one of new_columns, removed_columns and type_changes is non-empty;
\* without an expected schema has_drift is false whatever new_columns lists.
C1_HasDriftIffDiffAgainstBaseline ==
    result # None =>
        LET r == ReportOf(result)
        IN  r.has_drift = (/\ expected_schema # None
                           /\ (NonEmpty(r.new_columns) \/ NonEmpty(r.removed_columns)
                                  \/ NonEmpty(r.type_changes)))

C1_Witness ==
    /\ result # None
    /\ expected_schema # None
    /\ ReportOf(result).has_drift
    /\ ~NonEmpty(ReportOf(result).new_columns)
    /\ ~NonEmpty(ReportOf(result).removed_columns)
    /\ NonEmpty(ReportOf(result).type_changes)

\* The severity rule: CRITICAL if removed_columns or type_changes is
\* non-empty, else WARNING if new_columns is non-empty, else INFO.
SeverityRule(r) ==
    IF NonEmpty(r.removed_columns) \/ NonEmpty(r.type_changes) THEN r.severity = CRITICAL
    ELSE IF NonEmpty(r.new_columns) THEN r.severity = WARNING
    ELSE r.severity = INFO

\* C2 as stated: every report, with or without an expected schema, has the
\* severity of the severity rule, and no other severity value occurs.
C2_SeverityRuleAlways ==
    result # None =>
        /\ SeverityRule(ReportOf(result))
        /\ ReportOf(result).severity \in DriftSeverity

\* C2 amended: a report made against an expected schema has the severity of
\* the severity rule; a report made without an expected schema has severity
\* INFO whatever new_columns lists; no other severity value occurs.
C2_SeverityRuleAgainstBaseline ==
    result # None =>
        /\ expected_schema # None => SeverityRule(ReportOf(result))
        /\ expected_schema = None => ReportOf(result).severity = INFO
        /\ ReportOf(result).severity \in DriftSeverity

C2_Witness ==
    /\ result # None
    /\ expected_schema # None
    /\ NonEmpty(ReportOf(result).new_columns)
    /\ NonEmpty(ReportOf(result).removed_columns)
    /\ ReportOf(result).severity = CRITICAL

\* C3: validate(B, T, None) returns a report with has_drift false,
\* removed_columns and type_changes empty, severity INFO and new_columns the
\* lexicographically sorted list of all column names of B.
C3_NoBaselineReportSorted ==
    (result # None /\ expected_schema = None) =>
        /\ ~result[1].raised
        /\ LET r == ReportOf(result)
           IN  /\ r.has_drift = FALSE
               /\ r.removed_columns = << >>
               /\ r.type_changes = << >>
               /\ r.severity = INFO
               /\ ListsAscending(r.new_columns, ColumnsOf(df))

\* C4: with an expected schema, new_columns is the sorted list of the columns
\* of the batch that the expected schema lacks, and removed_columns the
\* sorted list of the columns of the expected schema that the batch lacks.
C4_NewAndRemovedAreSortedDifferences ==
    (result # None /\ expected_schema # None) =>
        LET r == ReportOf(result)
            expected_cols == DOMAIN expected_schema[1]
        IN  /\ ListsAscending(r.new_columns, ColumnsOf(df) \ expected_cols)
            /\ Len(r.new_columns) = Cardinality(ColumnsOf(df) \ expected_cols)
            /\ ListsAscending(r.removed_columns, expected_cols \ ColumnsOf(df))
            /\ Len(r.removed_columns) = Cardinality(expected_cols \ ColumnsOf(df))

C4_Witness ==
    /\ result # None
    /\ expected_schema # None
    /\ Len(df) = 2
    /\ StrLess(df[2].column, df[1].column)
    /\ Len(ReportOf(result).new_columns) = 2
    /\ Len(ReportOf(result).removed_columns) = 1

\* dtype descriptors that no pattern of the type mapping matches.
UnmappedDTypes == {"category", "Int64"}

\* C5: with an expected schema, type_changes maps exactly the columns in both
\* schemas whose type strings differ to (expected type, current type); a
\* column in both with the same type is in none of new_columns,
\* removed_columns and type_changes; unmapped types are compared by their
\* raw descriptors.
C5_TypeChangesAreTheDifferingCommonColumns ==
    (result # None /\ expected_schema # None) =>
        LET r == ReportOf(result)
            expected == expected_schema[1]
            common == ColumnsOf(df) \cap DOMAIN expected
            current(c) == _normalize_dtype(DTypeIn(df, c))
        IN  /\ DOMAIN r.type_changes = {c \in common : current(c) # expected[c]}
            /\ \A c \in DOMAIN r.type_changes :
                  r.type_changes[c] = <<expected[c], current(c)>>
            /\ \A c \in common :
                  current(c) = expected[c] =>
                      /\ c \notin Range(r.new_columns)
                      /\ c \notin Range(r.removed_columns)
                      /\ c \notin DOMAIN r.type_changes
            /\ \A c \in common :
                  (DTypeIn(df, c) \in UnmappedDTypes /\ expected[c] \in UnmappedDTypes) =>
                      /\ (c \in DOMAIN r.type_changes) = (DTypeIn(df, c) # expected[c])
                      /\ c \in DOMAIN r.type_changes =>
                            r.type_changes[c] = <<expected[c], DTypeIn(df, c)>>

C5_Witness ==
    /\ result # None
    /\ expected_schema # None
    /\ \E c, d \in ColumnsOf(df) \cap DOMAIN expected_schema[1] :
          /\ DTypeIn(df, c) = "Int64"
          /\ expected_schema[1][c] = "category"
          /\ ReportOf(result).type_changes[c] = <<"category", "Int64">>
          /\ DTypeIn(df, d) = "category"
          /\ expected_schema[1][d] = "category"
          /\ d \notin DOMAIN ReportOf(result).type_changes

\* C6: in every report no column is in both new_columns and removed_columns,
\* and no column of type_changes is in new_columns or removed_columns.
C6_DiffListsDisjoint ==
    result # None =>
        LET r == ReportOf(result)
        IN  /\ Range(r.new_columns) \cap Range(r.removed_columns) = {}
            /\ DOMAIN r.type_changes \cap Range(r.new_columns) = {}
            /\ DOMAIN r.type_changes \cap Range(r.removed_columns) = {}

C6_Witness ==
    /\ result # None
    /\ NonEmpty(ReportOf(result).new_columns)
    /\ NonEmpty(ReportOf(result).removed_columns)
    /\ NonEmpty(ReportOf(result).type_changes)

\* C7: validate raises ValidationError exactly when the detector is in strict
\* mode and the computed report has has_drift true; otherwise, strict mode
\* without drift and strict mode without expected schema included, it
\* returns a DriftReport.
C7_RaisesIffStrictAndDrift ==
    result # None =>
        LET o == result[1]
        IN  /\ o.raised = (detector.strict_mode /\ ReportOf(result).has_drift)
            /\ o.raised => (o.error # None /\ o.report = None)
            /\ ~o.raised => (o.report # None /\ o.error = None)
            /\ expected_schema = None => ~o.raised

C7_Witness ==
    /\ result # None
    /\ detector.strict_mode
    /\ result[1].raised
    /\ ReportOf(result).has_drift

\* C8: the ValidationError raised in strict mode carries a DriftReport equal
\* field by field to the report a non-strict detector returns for the same
\* batch, table name and expected schema.
C8_ErrorCarriesTheNonStrictReport ==
    (result # None /\ reference # None /\ result[1].raised) =>
        /\ ~reference[1].raised
        /\ result[1].error # None
        /\ result[1].error[1].drift_report = reference[1].report

C8_Witness ==
    /\ result # None
    /\ reference # None
    /\ result[1].raised
    /\ NonEmpty(reference[1].report[1].type_changes)

\* C9: two validate calls with the same batch, table name and expected schema
\* give the same outcome, DriftReports equal in every field, whatever
\* validate calls were made in between.
C9_RepeatedCallSameReport ==
    (first # None /\ result # None) =>
        /\ result[1].raised = first[1].raised
        /\ result = first

C9_Witness ==
    /\ calls = 2
    /\ others >= 1
    /\ first # None
    /\ result = first
    /\ ReportOf(result).has_drift

\* C10: exchanging the schema of the batch and the expected schema exchanges
\* new_columns and removed_columns.
C10_ExchangeSwapsNewAndRemoved ==
    (result # None /\ exchanged # None) =>
        /\ ReportOf(result).new_columns = ReportOf(exchanged).removed_columns
        /\ ReportOf(result).removed_columns = ReportOf(exchanged).new_columns

C10_Witness ==
    /\ result # None
    /\ exchanged # None
    /\ NonEmpty(ReportOf(result).new_columns)
    /\ NonEmpty(ReportOf(result).removed_columns)
    /\ ReportOf(exchanged).removed_columns = ReportOf(result).new_columns

\* C11: a batch with zero columns validated against a baseline of N >= 1
\* columns gives a report with removed_columns all N baseline columns in
\* sorted order, new_columns and type_changes empty, has_drift true and
\* severity CRITICAL.
C11_EmptyBatchRemovesWholeBaseline ==
    (/\ result # None
     /\ df = << >>
     /\ expected_schema # None
     /\ DOMAIN expected_schema[1] # {}) =>
        LET r == ReportOf(result)
            baseline == DOMAIN expected_schema[1]
        IN  /\ ListsAscending(r.removed_columns, baseline)
            /\ Len(r.removed_columns) = Cardinality(baseline)
            /\ r.new_columns = << >>
            /\ r.type_changes = << >>
            /\ r.has_drift = TRUE
            /\ r.severity = CRITICAL

C11_Witness ==
    /\ result # None
    /\ ~result[1].raised
    /\ df = << >>
    /\ expected_schema # None
    /\ Cardinality(DOMAIN expected_schema[1]) = 3
    /\ Len(result[1].report[1].removed_columns) = 3

\* C16: with an expected schema the message is the clauses of the non-empty
\* diff lists joined by "; " in the order new columns, removed columns, type
\* changes; it is "Schema matches expected structure" exactly when the three
\* diff lists are empty.
C16_MessageListsClausesInOrder ==
    (result # None /\ expected_schema # None) =>
        LET r == ReportOf(result)
            n == Len(r.new_columns)
            m == Len(r.removed_columns)
            t == Cardinality(DOMAIN r.type_changes)
            p == (IF n > 0 THEN <<ToString(n) \o " new column(s) added">> ELSE << >>)
                 \o (IF m > 0 THEN <<ToString(m) \o " column(s) removed">> ELSE << >>)
                 \o (IF t > 0 THEN <<ToString(t) \o " type change(s) detected">> ELSE << >>)
            fixed == "Schema matches expected structure"
        IN  /\ (r.message = fixed) = (n = 0 /\ m = 0 /\ t = 0)
            /\ Len(p) = 1 => r.message = p[1]
            /\ Len(p) = 2 => r.message = p[1] \o "; " \o p[2]
            /\ Len(p) = 3 => r.message = p[1] \o "; " \o p[2] \o "; " \o p[3]

C16_Witness ==
    /\ result # None
    /\ expected_schema # None
    /\ ReportOf(result).message
          = "1 new column(s) added; 1 column(s) removed; 1 type change(s) detected"

\* The priority table of the type normalizer as the specification gives it.
PriorityTable ==
    << <<"int", "integer">>,
       <<"float", "numeric">>,
       <<"object", "text">>,
       <<"string", "text">>,
       <<"bool", "boolean">>,
       <<"datetime", "timestamp">>,
       <<"date", "date">> >>

\* C13: the normalizer returns the canonical type of the first row of the
\* priority table whose pattern is a substring of the descriptor; a
\* descriptor containing "int" maps to integer, one containing "datetime" to
\* timestamp and never to date.
C13_NormalizerFollowsPriorityTable ==
    normalized # None =>
        LET hits == {i \in DOMAIN PriorityTable : Contains(descriptor, PriorityTable[i][1])}
        IN  /\ hits # {} =>
                  normalized[1] = PriorityTable[CHOOSE i \in hits : \A j \in hits : i <= j][2]
            /\ Contains(descriptor, "int") => normalized[1] = "integer"
            /\ (Contains(descriptor, "datetime") /\ ~Contains(descriptor, "int")
                   /\ ~Contains(descriptor, "float") /\ ~Contains(descriptor, "object")
                   /\ ~Contains(descriptor, "string") /\ ~Contains(descriptor, "bool"))
                  => normalized[1] = "timestamp"

\* C14: for a descriptor that no pattern matches the normalizer returns the
\* descriptor itself, never an empty string or a placeholder, so distinct
\* unmatched descriptors have distinct results.
C14_UnmatchedDescriptorKeptVerbatim ==
    normalized # None =>
        /\ normalized[1] # ""
        /\ (\A i \in DOMAIN type_mapping : ~Contains(descriptor, type_mapping[i][1]))
              => normalized[1] = descriptor
        /\ (\A i \in DOMAIN PriorityTable : ~Contains(descriptor, PriorityTable[i][1]))
              => normalized[1] = descriptor

C14_Witness ==
    /\ descriptor = "timedelta64[ns]"
    /\ normalized = Some("timedelta64[ns]")

\* The step of extract_schema: the dict returned has exactly the columns of
\* the batch as keys, one entry a column, each with the normalized dtype of
\* the column, and the batch is as before.
ExtractStep ==
    (extracted = None /\ extracted' # None) =>
        LET d == extracted'[1]
        IN  /\ df' = df
            /\ Range(d.keys) = ColumnsOf(df)
            /\ Len(d.keys) = Len(df)
            /\ DOMAIN d.map = ColumnsOf(df)
            /\ \A c \in ColumnsOf(df) : d.map[c] = _normalize_dtype(DTypeIn(df, c))

\* C15: extract_schema returns a mapping whose keys are exactly the column
\* names of the batch, one entry a column, columns of a batch without rows
\* and columns holding only nulls included, each value the normalizer's
\* result for the column's dtype; the batch is not modified.
C15_ExtractSchemaCoversEveryColumn == [][ExtractStep]_vars

C15_Witness ==
    /\ extracted # None
    /\ Len(df) = 2
    /\ df[1].dtype = "object"
    /\ df[2].dtype = "float64"
    /\ extracted[1].map[df[1].column] = "text"
    /\ extracted[1].map[df[2].column] = "numeric"

\* The no-baseline report for batch b.
NoBaselineReport(r, b) ==
    /\ r.has_drift = FALSE
    /\ r.severity = INFO
    /\ r.removed_columns = << >>
    /\ r.type_changes = << >>
    /\ Range(r.new_columns) = ColumnsOf(b)
    /\ Len(r.new_columns) = Len(b)

\* A load run that validated its batch while the store had no active column
\* of building_permits.
LoadedWithoutActiveColumns ==
    /\ op # None
    /\ op[1].validated
    /\ op[1].expected = << >>

\* C12 as stated: when the Schema Store has no active columns for the table,
\* the expected schema handed to validate is the empty mapping
\* get_active_schema returned, and validate returns the no-baseline report
\* for it.
C12_EmptyMappingGivesNoBaselineReport ==
    LoadedWithoutActiveColumns =>
        NoBaselineReport(
            ReportOf(Some(validate(detector, df, "building_permits",
                                   Some(op[1].expected)).outcome)),
            df)

\* C12, amended: when the Schema Store has no active columns for the table,
\* load hands validate an absent expected schema in place of the empty
\* mapping, and validate returns the no-baseline report for the batch.
C12_NoActiveColumnsGivesNoBaselineReport ==
    LoadedWithoutActiveColumns =>
        /\ op[1].handed = None
        /\ op[1].report # None
        /\ NoBaselineReport(op[1].report[1], df)

C12_Witness ==
    /\ LoadedWithoutActiveColumns
    /\ ~op[1].raised
    /\ Len(df) = 2
    /\ Len(op[1].report[1].new_columns) = 2
    /\ \E r \in BagToSet(rows) : r.table_name # "building_permits" /\ r.is_active = "active"

\* C17: get_active_schema(T) returns exactly the columns of table T whose
\* row is active, each with its stored type; a column marked removed and a
\* column of another table are not in the result.
C17_ActiveSchemaIsTheActiveRows ==
    active # None =>
        LET T == active[1].table_name
            got == active[1].schema
        IN  /\ DOMAIN got = {r.column_name : r \in {x \in BagToSet(rows) :
                                  x.table_name = T /\ x.is_active = "active"}}
            /\ \A c \in DOMAIN got :
                  BagIn(SchemaMetadata(T, c, got[c], "active"), rows)
            /\ \A r \in BagToSet(rows) :
                  (r.table_name = T /\ r.is_active = "removed")
                      => r.column_name \notin DOMAIN got
            /\ \A r \in BagToSet(rows) :
                  (r.table_name # T /\ r.column_name \in DOMAIN got)
                      => \E x \in BagToSet(rows) :
                            /\ x.table_name = T
                            /\ x.column_name = r.column_name
                            /\ x.is_active = "active"

C17_Witness ==
    /\ active # None
    /\ active[1].table_name = "building_permits"
    /\ DOMAIN active[1].schema = {ColumnNames[1]}
    /\ \E r \in BagToSet(rows) :
          /\ r.table_name = "building_permits"
          /\ r.column_name = ColumnNames[2]
          /\ r.is_active = "removed"
    /\ \E r \in BagToSet(rows) :
          /\ r.table_name = "job_executions"
          /\ r.column_name = ColumnNames[2]
          /\ r.is_active = "active"

\* The columns a successful load run handed to mark_columns_as_removed.
MarkedBy(o) ==
    IF o # None /\ o[1].report # None /\ ~o[1].raised
    THEN Range(o[1].report[1].removed_columns)
    ELSE {}

\* A row that the step may change: an active row of building_permits for a
\* column handed to mark_columns_as_removed.
Named(r, named) ==
    /\ r.table_name = "building_permits"
    /\ r.is_active = "active"
    /\ r.column_name \in named

SoftDeleteStep ==
    LET named == MarkedBy(op')
    IN  /\ {<<r.table_name, r.column_name>> : r \in BagToSet(rows)}
              \subseteq {<<r.table_name, r.column_name>> : r \in BagToSet(rows')}
        /\ BagCardinality(rows') >= BagCardinality(rows)
        /\ \A r \in BagToSet(rows) :
              IF Named(r, named)
              THEN /\ ~BagIn(r, rows')
                   /\ BagIn([r EXCEPT !.is_active = "removed"], rows')
              ELSE CopiesIn(r, rows') >= CopiesIn(r, rows)

\* C18: across load runs the set of (table, column) rows of the store never
\* shrinks; marking columns as removed only changes is_active of the named
\* active rows of building_permits from active to removed, and every other
\* row and every other field stays as it was.
C18_RemovalIsSoftDelete == [][SoftDeleteStep]_vars

C18_Witness ==
    /\ op # None
    /\ ~op[1].raised
    /\ op[1].report # None
    /\ op[1].report[1].removed_columns = <<ColumnNames[1]>>
    /\ \E r \in BagToSet(rows) :
          /\ r.table_name = "building_permits"
          /\ r.column_name = ColumnNames[1]
          /\ r.is_active = "removed"
    /\ BagIn(SchemaMetadata("job_executions", ColumnNames[1], "integer", "active"), rows)

\* A load run, by a non-strict detector, of a batch with rows that contains
\* column X while the store holds X of building_permits as removed.
ReAdded(X) ==
    /\ ~detector.strict_mode
    /\ op' # None
    /\ op'[1].validated
    /\ X \in ColumnsOf(df')
    /\ \E r \in BagToSet(rows) :
          /\ r.table_name = "building_permits"
          /\ r.column_name = X
          /\ r.is_active = "removed"

ReAddStep ==
    \A X \in Columns :
        ReAdded(X) =>
            /\ op'[1].report # None
            /\ X \in Range(op'[1].report[1].new_columns)
            /\ ~op'[1].raised
            /\ X \in DOMAIN get_active_schema(rows', "building_permits")

\* C19: when a column marked removed by an earlier load is in a later batch
\* again, the later load reports it in new_columns, completes without error,
\* and afterwards get_active_schema of the table contains it.
C19_ReAddedColumnBecomesActive == [][ReAddStep]_vars

\* C20: in every reachable state of the Schema Store, after any sequence of
\* load runs, there is at most one row for each (table name, column name).
C20_OneRowPerTableColumn ==
    \A r1, r2 \in BagToSet(rows) :
        (r1.table_name = r2.table_name /\ r1.column_name = r2.column_name)
            => (r1 = r2 /\ CopiesIn(r1, rows) = 1)

C20_Witness ==
    /\ op # None
    /\ op[1].raised
    /\ op[1].report # None
    /\ \E X \in Range(op[1].report[1].new_columns) :
          \E r \in BagToSet(rows) :
              /\ r.table_name = "building_permits"
              /\ r.column_name = X
              /\ r.is_active = "removed"

\* The schema-drift alerts among the alerts of a load run.
DriftAlerts(o) == {i \in DOMAIN o.alerts : o.alerts[i].args # << >>}

\* The notifier received the schema-drift alert of report r exactly once.
AlertedOnce(o, r) ==
    /\ Cardinality(DriftAlerts(o)) = 1
    /\ \A i \in DriftAlerts(o) :
          /\ o.alerts[i].args = <<"building_permits", r.new_columns,
                                  r.removed_columns, r.type_changes>>
          /\ o.alerts[i].severity =
                IF r.removed_columns # << >> \/ DOMAIN r.type_changes # {}
                THEN CRITICAL ELSE WARNING

\* C21 as stated: in load the notifier receives the schema-drift alert of
\* the report exactly once for every validation whose report has severity
\* WARNING or CRITICAL and never for a report of severity INFO; the alert is
\* CRITICAL when removed_columns or type_changes is non-empty and WARNING
\* when only new_columns is.
C21_AlertForEveryDriftReport ==
    (op # None /\ op[1].validated) =>
        LET r == ReportOf(op[1].validation)
        IN  IF r.severity \in {WARNING, CRITICAL}
            THEN AlertedOnce(op[1], r)
            ELSE DriftAlerts(op[1]) = {}

\* C21, amended: the notifier receives the schema-drift alert exactly once
\* for every validation that returns a report of severity WARNING or
\* CRITICAL to load, with the severity rule as stated, and never for a
\* report of severity INFO; a validation that raises in strict mode hands
\* load no report and no schema-drift alert is sent for it.
C21_AlertForEveryReturnedDriftReport ==
    (op # None /\ op[1].validated) =>
        LET r == ReportOf(op[1].validation)
        IN  IF op[1].validation[1].raised THEN DriftAlerts(op[1]) = {}
            ELSE IF r.severity \in {WARNING, CRITICAL}
            THEN AlertedOnce(op[1], r)
            ELSE DriftAlerts(op[1]) = {}

C21_Witness ==
    /\ op # None
    /\ op[1].validated
    /\ ~op[1].validation[1].raised
    /\ op[1].report[1].new_columns # << >>
    /\ op[1].report[1].removed_columns # << >>
    /\ op[1].alerts[1].severity = CRITICAL
    /\ op[1].alerts[1].args[2] = op[1].report[1].new_columns

\* A load run that validated its batch and completed without error.
LoadedSuccessfully ==
    /\ op # None
    /\ op[1].validated
    /\ ~op[1].raised

\* C22: after a load that completed successfully for a non-empty batch the
\* active columns of building_permits in the store are the columns of the
\* batch: each column reported new is an active row with its current type
\* and each column reported removed is a removed row.
C22_ActiveColumnsAreTheBatchColumns ==
    LoadedSuccessfully =>
        LET r == op[1].report[1]
        IN  /\ DOMAIN get_active_schema(rows, "building_permits") = ColumnsOf(df)
            /\ {x.column_name : x \in {y \in BagToSet(rows) :
                    y.table_name = "building_permits" /\ y.is_active = "active"}}
                  = ColumnsOf(df)
            /\ \A c \in Range(r.new_columns) :
                  BagIn(SchemaMetadata("building_permits", c,
                                       _normalize_dtype(DTypeIn(df, c)), "active"), rows)
            /\ \A c \in Range(r.removed_columns) :
                  \A x \in BagToSet(rows) :
                      (x.table_name = "building_permits" /\ x.column_name = c)
                          => x.is_active = "removed"
            /\ \A c \in Range(r.removed_columns) :
                  \E x \in BagToSet(rows) :
                      x.table_name = "building_permits" /\ x.column_name = c

C22_Witness ==
    /\ LoadedSuccessfully
    /\ op[1].expected # << >>
    /\ op[1].report[1].new_columns # << >>
    /\ op[1].report[1].removed_columns # << >>
    /\ Len(df) = 2

\* C27: after a load of batch B has completed successfully, validating B
\* against get_active_schema of the updated store reports has_drift = false.
C27_DriftReportingConverges ==
    LoadedSuccessfully =>
        ReportOf(Some(validate(ColumnDriftDetector(FALSE), df, "building_permits",
                 expected_schema_arg(get_active_schema(rows, "building_permits"))).outcome)
                ).has_drift = FALSE

\* A load run whose detector is in strict mode and whose validation found
\* drift.
StrictDrift(o) ==
    /\ detector.strict_mode
    /\ o # None
    /\ o[1].validated
    /\ ReportOf(o[1].validation).has_drift

StrictDriftStep ==
    StrictDrift(op') =>
        /\ op'[1].raised
        /\ op'[1].alerts = <<send_alert("ETL Job Failed: BuildingPermitsETL", ERROR)>>
        /\ DriftAlerts(op'[1]) = {}
        /\ rows' = rows
        /\ op'[1].records_processed = 0

\* C28: when the detector is in strict mode and validate finds drift, load
\* raises JobError, sends an error alert and no schema-drift alert, leaves
\* the Schema Store unchanged and upserts no record.
C28_StrictDriftAbortsLoad == [][StrictDriftStep]_vars

C28_Witness ==
    /\ StrictDrift(op)
    /\ op[1].raised
    /\ op[1].expected # << >>
    /\ ReportOf(op[1].validation).removed_columns # << >>
    /\ ReportOf(op[1].validation).new_columns # << >>

EmptyBatchStep ==
    (op' # None /\ (op'[1].nrows = 0 \/ df' = << >>)) =>
        /\ op'[1].records_processed = 0
        /\ ~op'[1].raised
        /\ ~op'[1].validated
        /\ op'[1].validation = None
        /\ op'[1].alerts = << >>
        /\ rows' = rows
        /\ detector' = detector

\* C29: load called with a batch without rows or without columns returns
\* records_processed = 0 without calling validate, without sending an alert
\* and without changing the Schema Store, so no baseline column is marked
\* removed because a batch was empty.
C29_EmptyBatchLeavesStoreAlone == [][EmptyBatchStep]_vars

C29_Witness ==
    /\ op # None
    /\ op[1].nrows = 0
    /\ Len(df) = 1
    /\ op[1].records_processed = 0
    /\ Cardinality({x \in BagToSet(rows) :
           /\ x.table_name = "building_permits"
           /\ x.is_active = "active"
           /\ x.column_name \notin ColumnsOf(df)}) = 1

\* The calls of the phases of the try block among the calls made.
PhaseCalls(e) == SelectSeq(e.phases, LAMBDA c : c # "cleanup")

CleanupCalls(e) == SelectSeq(e.phases, LAMBDA c : c = "cleanup")

\* C24: execute calls setup, extract, transform and load in this order; a
\* phase that raised is the last phase called; cleanup is called exactly
\* once, after the phases, whether or not a phase raised; and execute
\* returns a JobResult and lets no exception out, also when cleanup raises.
C24_PhasesInOrderThenCleanup ==
    LET calls_made == PhaseCalls(execution)
    IN  /\ Len(calls_made) <= 4
        /\ \A i \in DOMAIN calls_made : calls_made[i] = PhaseOrder[i]
        /\ execution.raised_in # None =>
              calls_made[Len(calls_made)] = execution.raised_in[1]
        /\ Len(CleanupCalls(execution)) <= 1
        /\ (CleanupCalls(execution) # << >>) =>
              /\ execution.phases[Len(execution.phases)] = "cleanup"
              /\ (execution.raised_in = None => calls_made = PhaseOrder)
        /\ (execution.pc \in {"setup", "extract", "transform", "load", "cleanup"})
              => CleanupCalls(execution) = << >>
        /\ (execution.pc \in {"return", "done"}) => Len(CleanupCalls(execution)) = 1
        /\ ~execution.propagated
        /\ execution.pc \in {"setup", "extract", "transform", "load", "cleanup",
                             "return", "done"}
        /\ (execution.pc = "done") = (execution.result # None)
        /\ (execution.pc # "done") => ENABLED NextExecute

C24_Witness ==
    /\ execution.pc = "done"
    /\ execution.raised_in = Some("extract")
    /\ execution.phases = <<"setup", "extract", "cleanup">>
    /\ execution.cleanup_raised
    /\ execution.result # None

\* C25: the JobResult execute returns has status FAILED when a phase
\* raised; otherwise PARTIAL_SUCCESS exactly when records_failed > 0 and
\* records_processed > 0, FAILED when records_failed > 0 and
\* records_processed = 0, SUCCESS when records_failed = 0; the status is
\* never PENDING or RUNNING and error_message is set exactly when a phase
\* raised.
C25_StatusOfTheResult ==
    execution.result # None =>
        LET r == execution.result[1]
            failed == IF execution.load_result = None THEN 0
                      ELSE get(execution.load_result[1], "records_failed")
            processed == IF execution.load_result = None THEN 0
                         ELSE get(execution.load_result[1], "records_processed")
        IN  /\ r.status \in JobStatus \ {PENDING, RUNNING}
            /\ (r.error_message # None) = (execution.raised_in # None)
            /\ execution.raised_in # None => r.status = FAILED
            /\ execution.raised_in = None =>
                  /\ r.records_failed = failed
                  /\ r.records_processed = processed
                  /\ (r.status = PARTIAL_SUCCESS) = (failed > 0 /\ processed > 0)
                  /\ (failed > 0 /\ processed = 0) => r.status = FAILED
                  /\ (failed = 0) => r.status = SUCCESS

C25_Witness ==
    /\ execution.result # None
    /\ execution.raised_in = None
    /\ execution.result[1].status = FAILED
    /\ execution.result[1].records_failed = 2
    /\ execution.result[1].error_message = None
    /\ execution.cleanup_raised

\* A response after which fetch_data may issue a further request: 429, a
\* timeout or a request exception.
Retryable(r) ==
    \/ r.exception # ""
    \/ r.status_code = 429
    \/ (r.status_code = 200 /\ r.body = "not json")

\* C26: fetch_data issues at most max_retries requests and ends by
\* returning the records of a 200 success response or by raising
\* CKANAPIError; a further request follows only a 429 response, a timeout
\* or a request exception while attempts remain; a 200 response with
\* success false or any other status raises CKANAPIError at once.
C26_FetchRetriesAreBounded ==
    fetch.pc # "idle" =>
        LET n == Len(fetch.responses)
        IN  /\ n <= fetch.max_retries
            /\ fetch.pc \in {"request", "returned", "raised"}
            /\ (fetch.pc = "request") => ENABLED NextFetch
            /\ \A i \in 1..(n - 1) : Retryable(fetch.responses[i])
            /\ (fetch.pc = "request" /\ n > 0) =>
                  (Retryable(fetch.responses[n]) /\ n < fetch.max_retries)
            /\ (fetch.pc = "returned") =>
                  /\ fetch.responses[n].status_code = 200
                  /\ fetch.responses[n].body = "success true"
                  /\ fetch.records = Some(fetch.responses[n].records)
                  /\ fetch.error = None
            /\ (fetch.pc = "raised") => (fetch.error # None /\ fetch.records = None)
            /\ (n > 0 /\ ~Retryable(fetch.responses[n])
                      /\ fetch.responses[n].body # "success true")
                  => fetch.pc = "raised"

C26_Witness ==
    /\ fetch.max_retries = 3
    /\ Len(fetch.responses) = 3
    /\ fetch.responses[1].status_code = 429
    /\ fetch.responses[2].exception = "Timeout"
    /\ fetch.responses[3].status_code = 500
    /\ fetch.pc = "raised"
    /\ fetch.slept = 10

\* A statement of a validate call or a call of extract_schema leaves the
\* detector, the arguments of every call in progress, the observed batch
\* and expected schema and the Schema Store as they were, and a call that
\* has ended has the outcome of the same call made alone.
ThreadStep ==
    /\ detector' = detector
    /\ df' = df
    /\ expected_schema' = expected_schema
    /\ rows' = rows
    /\ \A t \in Threads :
          threads[t].pc # "idle" =>
              /\ threads'[t].df = threads[t].df
              /\ threads'[t].expected_schema = threads[t].expected_schema
    /\ threads'[1].pc # "idle" =>
          (threads'[1].df = df /\ threads'[1].expected_schema = expected_schema)
    /\ \A t \in Threads :
          threads'[t].pc = "done" =>
              threads'[t].outcome =
                  Some(validate(detector, threads'[t].df, table_name,
                                threads'[t].expected_schema).outcome)

\* C23: validate and extract_schema share no mutable state: a call changes
\* neither strict_mode of the detector, nor the expected schema or the
\* batch passed in, nor the Schema Store, and in every interleaving of two
\* validate calls on one detector each call has the outcome it has alone.
C23_InterleavedCallsAsAlone == [][ThreadStep]_vars

C23_Witness ==
    /\ threads[1].pc = "done"
    /\ threads[2].pc = "done"
    /\ threads[2].seen = "compare"
    /\ threads[1].outcome # threads[2].outcome
    /\ ReportOf(threads[1].outcome).has_drift
    /\ ~ReportOf(threads[2].outcome).has_drift
    /\ extracted # None

\* The two runs made one after the other, run i first, from the store the
\* runs started from: the store left and whether each run raised.
Sequential(i, j) ==
    LET one == load(detector, runs.store, [df |-> runs.run[i].df, nrows |-> 1])
        two == load(detector, one.rows, [df |-> runs.run[j].df, nrows |-> 1])
    IN  /\ rows = two.rows
        /\ runs.run[i].raised = one.raised
        /\ runs.run[j].raised = two.raised

\* C30: when two load runs for the table interleave, no column is recorded
\* twice and neither run fails because of the writes of the other: the
\* store they leave and the outcome of each run are those of the two runs
\* made one after the other in some order.
C30_InterleavedRunsAreSerializable ==
    (runs.run[1].pc = "done" /\ runs.run[2].pc = "done") =>
        /\ \A r1, r2 \in BagToSet(rows) :
              (r1.table_name = r2.table_name /\ r1.column_name = r2.column_name)
                  => (r1 = r2 /\ CopiesIn(r1, rows) = 1)
        /\ Sequential(1, 2) \/ Sequential(2, 1)

====
